---------------------------- MODULE Spec2Model ----------------------------
(***************************************************************************)
(* Model of the two Streamlit utilities of the repository.                 *)
(*                                                                         *)
(*   streamlit_data_masking/data_masking.py  masking dispatcher, session   *)
(*                                           token map, streaming writer   *)
(*                                                                         *)
(* Text is a sequence of one-character strings (<<"a","b">> is "ab"), so   *)
(* that slicing, length and concatenation are computed as Python computes  *)
(* them.  A table is a record [columns, rows]: columns is the sequence of  *)
(* column labels and rows a sequence of functions from label to cell.      *)
(***************************************************************************)
EXTENDS Integers, Sequences, FiniteSets, TLC

Min(a, b) == IF a < b THEN a ELSE b
Max(a, b) == IF a > b THEN a ELSE b

Range(s) == { s[i] : i \in DOMAIN s }

(***************************************************************************)
(* Python string primitives                                                *)
(***************************************************************************)

\* "*" * n ; a non-positive count gives the empty string
Stars(n) == [i \in 1..Max(0, n) |-> "*"]

\* x[:n] for n >= 0
SliceHead(x, n) == SubSeq(x, 1, Min(n, Len(x)))

\* x[-n:] for n >= 0.  -0 is 0, so x[-0:] is x[0:], the whole string.
SliceTail(x, n) ==
    IF n = 0 THEN x
    ELSE SubSeq(x, Max(0, Len(x) - n) + 1, Len(x))

Digits == <<"0", "1", "2", "3", "4", "5", "6", "7", "8", "9">>

IsDigit(ch) == ch \in Range(Digits)

\* str(n) for n >= 0
RECURSIVE DecimalText(_)
DecimalText(n) ==
    IF n < 10 THEN <<Digits[n + 1]>>
    ELSE DecimalText(n \div 10) \o <<Digits[(n % 10) + 1]>>

\* f"{n:07d}": zero-padded to at least seven digits
Format07d(n) ==
    LET d == DecimalText(n)
    IN  [i \in 1..Max(0, 7 - Len(d)) |-> "0"] \o d

\* f"TKN_{counter:07d}"
TokenOf(counter) == <<"T", "K", "N", "_">> \o Format07d(counter)

\* the value of a decimal digit string
RECURSIVE DecimalValue(_)
DecimalValue(d) ==
    IF d = <<>> THEN 0
    ELSE 10 * DecimalValue(SubSeq(d, 1, Len(d) - 1))
         + (CHOOSE k \in 0..9 : Digits[k + 1] = d[Len(d)])

(***************************************************************************)
(* pandas cells                                                            *)
(***************************************************************************)

\* A missing cell (NaN).  Its single element is not a character, so it
\* differs from every text.
NaN == <<"<NaN>">>

\* Series.astype(str): text stays, a missing cell becomes the text "nan"
\* (pandas 1.x / 2.x object columns).
AsTypeStr(v) == IF v = NaN THEN <<"n", "a", "n">> ELSE v

\* Series.fillna(""): only a cell that is still missing is replaced
FillNa(v) == IF v = NaN THEN <<>> ELSE v

\* s = chunk[c].astype(str).fillna("")
CellText(v) == FillNa(AsTypeStr(v))

(***************************************************************************)
(* hashing                                                                 *)
(***************************************************************************)

\* hashlib.sha256((salt + x).encode()).hexdigest(): the digest is a
\* collision-free function of the concatenation salt + x; it is written
\* as the tagged preimage.
sha256_hash(x, salt) == <<"#">> \o salt \o x


(***************************************************************************)
(* regular expressions                                                     *)
(*                                                                         *)
(* The patterns of the model are made of literal characters and of "(".    *)
(* No pattern holds a ")", so a pattern with "(" is an unterminated group  *)
(* and re.compile raises re.error; every other pattern matches itself.     *)
(***************************************************************************)

\* a compile step that accepts every pattern
ReCompilesAnything(pattern) == TRUE

\* re.compile(pattern) returns without raising re.error
ReCompiles(pattern) == "(" \notin Range(pattern)

\* reg.sub(lambda m: "*" * len(m.group(0)), x) from position i on: the
\* leftmost match is replaced and the scan resumes after it.
RECURSIVE ReSubFrom(_, _, _)
ReSubFrom(pattern, x, i) ==
    IF i > Len(x) THEN <<>>
    ELSE IF /\ i + Len(pattern) - 1 <= Len(x)
            /\ SubSeq(x, i, i + Len(pattern) - 1) = pattern
         THEN Stars(Len(pattern)) \o ReSubFrom(pattern, x, i + Len(pattern))
         ELSE <<x[i]>> \o ReSubFrom(pattern, x, i + 1)

ReSubStars(pattern, x) == ReSubFrom(pattern, x, 1)

(***************************************************************************)
(* presets                                                                 *)
(***************************************************************************)

Letters ==
    {"a", "b", "c", "d", "e", "f", "g", "h", "i", "j", "k", "l", "m",
     "n", "o", "p", "q", "r", "s", "t", "u", "v", "w", "x", "y", "z",
     "A", "B", "C", "D", "E", "F", "G", "H", "I", "J", "K", "L", "M",
     "N", "O", "P", "Q", "R", "S", "T", "U", "V", "W", "X", "Y", "Z"}

\* [A-Za-z0-9._%+-]
EmailLocalChars == Letters \cup Range(Digits) \cup {".", "_", "%", "+", "-"}

\* [A-Za-z0-9.-]
EmailDomainChars == Letters \cup Range(Digits) \cup {".", "-"}

\* length of the longest run of characters of class from position i on
RECURSIVE RunLen(_, _, _)
RunLen(x, i, class) ==
    IF i > Len(x) \/ x[i] \notin class THEN 0
    ELSE 1 + RunLen(x, i + 1, class)

\* re.sub(r"([A-Za-z0-9._%+-]+)@([A-Za-z0-9.-]+)",
\*        lambda m: m.group(1) + "@" + "*" * len(m.group(2)), x)
\* "@" is in neither class, so a greedy run that is not followed by "@"
\* cannot be shortened into a match.
RECURSIVE EmailSubFrom(_, _)
EmailSubFrom(x, i) ==
    IF i > Len(x) THEN <<>>
    ELSE LET n1 == RunLen(x, i, EmailLocalChars)
             n2 == RunLen(x, i + n1 + 1, EmailDomainChars)
         IN  IF /\ n1 >= 1
                /\ i + n1 <= Len(x)
                /\ x[i + n1] = "@"
                /\ n2 >= 1
             THEN SubSeq(x, i, i + n1 - 1) \o <<"@">> \o Stars(n2)
                  \o EmailSubFrom(x, i + n1 + 1 + n2)
             ELSE <<x[i]>> \o EmailSubFrom(x, i + 1)

PresetEmail(x) == EmailSubFrom(x, 1)

AllDigits(x, from, n) ==
    /\ from + n - 1 <= Len(x)
    /\ \A k \in from..(from + n - 1) : IsDigit(x[k])

IsPhoneSep(x, at) == at <= Len(x) /\ x[at] \in {"-", " "}

\* the ways (\d{2,4})([- ]?)(\d{2,4})([- ]?)(\d{3,4}) matches at i, as
\* the lengths <<n1, s1, n3, s2, n5>> of its five groups
PhoneMatchesAt(x, i) ==
    { m \in (2..4) \X (0..1) \X (2..4) \X (0..1) \X (3..4) :
        /\ AllDigits(x, i, m[1])
        /\ m[2] = 1 => IsPhoneSep(x, i + m[1])
        /\ AllDigits(x, i + m[1] + m[2], m[3])
        /\ m[4] = 1 => IsPhoneSep(x, i + m[1] + m[2] + m[3])
        /\ AllDigits(x, i + m[1] + m[2] + m[3] + m[4], m[5]) }

\* every quantifier is greedy, so the backtracking search returns the
\* match whose group lengths are largest, leftmost group first
PhoneRank(m) == (((m[1] * 2 + m[2]) * 5 + m[3]) * 2 + m[4]) * 5 + m[5]

PhoneBest(x, i) ==
    CHOOSE m \in PhoneMatchesAt(x, i) :
        \A o \in PhoneMatchesAt(x, i) : PhoneRank(o) <= PhoneRank(m)

\* re.sub(<phone pattern>, lambda m: m.group(1) + m.group(2)
\*        + "*" * len(m.group(3)) + m.group(4) + m.group(5), x)
RECURSIVE PhoneSubFrom(_, _)
PhoneSubFrom(x, i) ==
    IF i > Len(x) THEN <<>>
    ELSE IF PhoneMatchesAt(x, i) = {}
         THEN <<x[i]>> \o PhoneSubFrom(x, i + 1)
         ELSE LET m  == PhoneBest(x, i)
                  p3 == i + m[1] + m[2]
                  p4 == p3 + m[3]
                  e  == p4 + m[4] + m[5]
              IN  SubSeq(x, i, p3 - 1) \o Stars(m[3])
                  \o SubSeq(x, p4, e - 1) \o PhoneSubFrom(x, e)

PresetPhone(x) == PhoneSubFrom(x, 1)

\* re.sub(r"[^\d]", "", x)
OnlyDigits(x) == SelectSeq(x, IsDigit)

\* ("*" * max(0, len(digits) - 4)) + digits[-4:]
PresetCreditCard(x) ==
    LET digits == OnlyDigits(x)
    IN  Stars(Max(0, Len(digits) - 4)) \o SliceTail(digits, 4)

PresetNames == {"Email", "Phone", "CreditCard"}

\* PRESETS[preset]["func"](x)
PRESETS(preset, x) ==
    CASE preset = "Email"      -> PresetEmail(x)
      [] preset = "Phone"      -> PresetPhone(x)
      [] preset = "CreditCard" -> PresetCreditCard(x)

(***************************************************************************)
(* masking dispatcher                                                      *)
(***************************************************************************)

\* the six entries of the method selectbox, in its order
Methods == <<"full", "partial", "hash", "tokenize", "regex", "preset">>

\* "****" if x else ""
MaskFullCell(x) == IF x # <<>> THEN <<"*", "*", "*", "*">> ELSE <<>>

\* (x[:head] + ("*" * max(0, len(x) - head - tail)) + x[-tail:]) if x else ""
KeepHeadTailCell(x, head, tail) ==
    IF x # <<>>
    THEN SliceHead(x, head) \o Stars(Max(0, Len(x) - head - tail)) \o SliceTail(x, tail)
    ELSE <<>>

\* sha256_hash(x, salt=salt) if x else ""
HashCell(x, salt) == IF x # <<>> THEN sha256_hash(x, salt) ELSE <<>>

\* reg.sub(lambda m: "*" * len(m.group(0)), x) if x else ""
RegexCell(x, pattern) == IF x # <<>> THEN ReSubStars(pattern, x) ELSE <<>>

\* fn(x) if x else ""
PresetCell(x, preset) == IF x # <<>> THEN PRESETS(preset, x) ELSE <<>>

\* the standalone column helper, over a column given as a sequence of cells
mask_keep_head_tail(s, head, tail) ==
    [i \in DOMAIN s |-> KeepHeadTailCell(CellText(s[i]), head, tail)]

\* tm[v] = token
MapPut(tm, v, token) ==
    [k \in DOMAIN tm \cup {v} |-> IF k = v THEN token ELSE tm[k]]

\* the tokenize loop from cell i of the column text s on: an empty cell gives
\* "", a value that is not a key gets the token of the running counter
RECURSIVE TokenizeFrom(_, _, _, _)
TokenizeFrom(s, i, tm, counter) ==
    IF i > Len(s) THEN [out |-> <<>>, token_map |-> tm]
    ELSE IF s[i] = <<>>
         THEN LET rest == TokenizeFrom(s, i + 1, tm, counter)
              IN  [out |-> <<<<>>>> \o rest.out, token_map |-> rest.token_map]
         ELSE LET fresh == s[i] \notin DOMAIN tm
                  tm1   == IF fresh THEN MapPut(tm, s[i], TokenOf(counter)) ELSE tm
                  rest  == TokenizeFrom(s, i + 1, tm1,
                                        IF fresh THEN counter + 1 ELSE counter)
              IN  [out |-> <<tm1[s[i]]>> \o rest.out, token_map |-> rest.token_map]

\* a tokenizer whose counter restarts at 1 in every call
TokenizeColumnCounterRestarts(s, tm) == TokenizeFrom(s, 1, tm, 1)

\* a tokenizer that builds a new map in every call
TokenizeColumnFreshMap(s, tm) == TokenizeFrom(s, 1, <<>>, 1)

\* counter = len(tm) + 1, then the loop over the column
TokenizeColumn(s, tm) == TokenizeFrom(s, 1, tm, Cardinality(DOMAIN tm) + 1)

\* an assignment that writes the new values into every column of the chunk
SetColumnEveryColumn(chunk, c, vals) ==
    [chunk EXCEPT !.rows =
        [i \in DOMAIN chunk.rows |-> [k \in DOMAIN chunk.rows[i] |-> vals[i]]]]

\* chunk[c] = vals
SetColumn(chunk, c, vals) ==
    [chunk EXCEPT !.rows =
        [i \in DOMAIN chunk.rows |-> [chunk.rows[i] EXCEPT ![c] = vals[i]]]]

\* the branch of the if/elif chain that a method name takes; a name that is
\* none of the six takes no branch
MethodBranch(method) ==
    IF method \in Range(Methods) THEN method ELSE "none"

\* the body of the loop for one target column c that is in the chunk.
\* st is [chunk, token_map, errors]; errors collects the st.error calls.
MaskColumn(st, c, method, head_n, tail_n, salt, regex_pat, preset) ==
    LET s      == [i \in DOMAIN st.chunk.rows |-> CellText(st.chunk.rows[i][c])]
        branch == MethodBranch(method)
    IN  CASE branch = "full" ->
               [st EXCEPT !.chunk =
                   SetColumn(st.chunk, c, [i \in DOMAIN s |-> MaskFullCell(s[i])])]
          [] branch = "partial" ->
               [st EXCEPT !.chunk =
                   SetColumn(st.chunk, c,
                       [i \in DOMAIN s |-> KeepHeadTailCell(s[i], head_n, tail_n)])]
          [] branch = "hash" ->
               [st EXCEPT !.chunk =
                   SetColumn(st.chunk, c, [i \in DOMAIN s |-> HashCell(s[i], salt)])]
          [] branch = "tokenize" ->
               LET t == TokenizeColumn(s, st.token_map)
               IN  [st EXCEPT !.chunk = SetColumn(st.chunk, c, t.out),
                              !.token_map = t.token_map]
          [] branch = "regex" ->
               IF regex_pat # <<>>
               THEN IF ReCompiles(regex_pat)
                    THEN [st EXCEPT !.chunk =
                             SetColumn(st.chunk, c,
                                 [i \in DOMAIN s |-> RegexCell(s[i], regex_pat)])]
                    ELSE [st EXCEPT !.errors = Append(@, "regex_error")]
               ELSE [st EXCEPT !.errors = Append(@, "regex_missing")]
          [] branch = "preset" ->
               [st EXCEPT !.chunk =
                   SetColumn(st.chunk, c, [i \in DOMAIN s |-> PresetCell(s[i], preset)])]
          [] OTHER -> st

\* for c in cols, from the k-th target on; a target that is no column of the
\* chunk is skipped
RECURSIVE MaskColumnsFrom(_, _, _, _, _, _, _, _, _)
MaskColumnsFrom(st, cols, k, method, head_n, tail_n, salt, regex_pat, preset) ==
    IF k > Len(cols) THEN st
    ELSE IF cols[k] \notin Range(st.chunk.columns)
         THEN MaskColumnsFrom(st, cols, k + 1, method, head_n, tail_n, salt,
                              regex_pat, preset)
         ELSE MaskColumnsFrom(
                  MaskColumn(st, cols[k], method, head_n, tail_n, salt, regex_pat, preset),
                  cols, k + 1, method, head_n, tail_n, salt, regex_pat, preset)

\* _apply_masking(chunk, cols, ...) with st.session_state.token_map = tm:
\* the table returned, the token map afterwards and the errors reported
ApplyMasking(chunk, cols, method, head_n, tail_n, salt, regex_pat, preset, tm) ==
    LET st == [chunk |-> chunk, token_map |-> tm, errors |-> <<>>]
    IN  IF cols = <<>> THEN st
        ELSE MaskColumnsFrom(st, cols, 1, method, head_n, tail_n, salt, regex_pat, preset)

(***************************************************************************)
(* inputs of the model                                                     *)
(***************************************************************************)

\* largest sequence number of a token in an imported map
MaxSeq == 2

\* most streaming runs of a session
MaxRuns == 1

\* column labels of the input files (header row "A,B")
FileColumns == <<"A", "B">>

EmailText == <<"a", "@", "b">>
CodeText  == <<"b", "2">>
NanText   == <<"n", "a", "n">>

FileRow(a, b) == [A |-> a, B |-> b]

\* the input files: a header row and the data rows, as text fields
Files ==
    { [columns |-> FileColumns, rows |-> r] :
        r \in { <<>>,
                <<FileRow(EmailText, CodeText)>>,
                <<FileRow(<<>>, CodeText), FileRow(EmailText, <<>>)>>,
                <<FileRow(EmailText, <<>>), FileRow(CodeText, EmailText)>>,
                <<FileRow(EmailText, CodeText), FileRow(<<>>, <<>>),
                  FileRow(CodeText, EmailText)>> } }

\* values of the sidebar widgets
ColsChoices == { <<>>, <<"A">>, <<"A", "B">>, <<"B", "A">> }
RegexChoices == { <<>>, <<"(">>, <<"a">> }
ChunkSizes == { 1, 2 }

Policy(method, head_n, tail_n, salt, regex_pat, preset) ==
    [method |-> method, head_n |-> head_n, tail_n |-> tail_n, salt |-> salt,
     regex_pat |-> regex_pat, preset |-> preset]

\* the settings the sidebar holds: the selectbox offers the six methods and
\* preset is None unless the method is the preset one.  Head and tail are
\* at 1, or at 1 and 0; salt and pattern are empty where the method does
\* not read them.
Policies ==
    { Policy("full", 1, 1, <<>>, <<>>, "None"),
      Policy("partial", 1, 1, <<>>, <<>>, "None"),
      Policy("partial", 1, 0, <<>>, <<>>, "None"),
      Policy("hash", 1, 1, <<"s">>, <<>>, "None"),
      Policy("tokenize", 1, 1, <<>>, <<>>, "None") }
    \cup { Policy("regex", 1, 1, <<>>, re, "None") : re \in RegexChoices }
    \cup { Policy("preset", 1, 1, <<>>, <<>>, pr) : pr \in PresetNames }

\* the raw values an imported map can have as keys
ImportKeys == { EmailText }

\* the token maps a JSON file can hold: injective, tokens TKN_0000001 ..
ImportableMaps ==
    { m \in UNION { [K -> { TokenOf(n) : n \in 1..MaxSeq }] : K \in SUBSET ImportKeys } :
        \A j, k \in DOMAIN m : m[j] = m[k] => j = k }

(***************************************************************************)
(* readers                                                                 *)
(***************************************************************************)

\* pd.read_csv(..., dtype=str, keep_default_na=False, na_filter=False):
\* every field is text, an empty field is the empty string
ReadCsvText(f) == f

\* pd.read_csv(path, sep=sep, header=header, nrows=nrows) with the default
\* NA handling: an empty field is a missing cell.  The files of the model
\* are shorter than the smallest nrows (5).
read_preview_from_path(f) ==
    [f EXCEPT !.rows =
        [i \in DOMAIN f.rows |->
            [c \in DOMAIN f.rows[i] |->
                IF f.rows[i][c] = <<>> THEN NaN ELSE f.rows[i][c]]]]

\* the rows of the chunk that follows the first `done` rows.  A file with no
\* data row still yields one empty first chunk carrying the columns.
NextChunk(t, done, chunksize) ==
    [t EXCEPT !.rows = SubSeq(t.rows, done + 1, Min(Len(t.rows), done + chunksize))]

HasNextChunk(t, done, first) ==
    done < Len(t.rows) \/ (first /\ Len(t.rows) = 0)

\* an import that replaces the session map by the imported one
MapReplace(tm, other) == other

\* dict.update(other)
MapUpdate(tm, other) ==
    [k \in DOMAIN tm \cup DOMAIN other |->
        IF k \in DOMAIN other THEN other[k] ELSE tm[k]]

\* a writer that puts the header line before every batch
CsvLinesHeaderEveryBatch(chunk, write_header) ==
    <<[kind |-> "header", fields |-> chunk.columns]>>
    \o [i \in DOMAIN chunk.rows |->
           [kind |-> "row",
            fields |-> [k \in DOMAIN chunk.columns |-> chunk.rows[i][chunk.columns[k]]]]]

\* chunk.to_csv(out_path, mode="a", header=write_header, ...): the lines
\* appended to the file, the header line being the column labels
CsvLines(chunk, write_header) ==
    (IF write_header THEN <<[kind |-> "header", fields |-> chunk.columns]>> ELSE <<>>)
    \o [i \in DOMAIN chunk.rows |->
           [kind |-> "row",
            fields |-> [k \in DOMAIN chunk.columns |-> chunk.rows[i][chunk.columns[k]]]]]

(***************************************************************************)
(* the session                                                             *)
(***************************************************************************)

VARIABLES
    file,            \* the table stored at the input path
    settings,        \* the sidebar widgets: target columns and masking policy
    token_map,       \* st.session_state.token_map
    preview_masked,  \* st.session_state.preview_masked: <<>> is None, <<t>> a table
    loaded,          \* what json.load returned in this script run: <<>> or <<map>>
    errors,          \* the st.error / st.sidebar.error reports of this script run
    out_file,        \* the lines of the file at out_path
    pc,              \* "idle", or "streaming" inside the loop of stream_mask_save
    run,             \* arguments and locals of the streaming run in progress
    runs,            \* streaming runs started so far
    call,            \* arguments of a direct call of a masking function
    ret              \* what the call returned: <<>> before it returns, then <<r>>

vars == <<file, settings, token_map, preview_masked, loaded, errors, out_file, pc,
          run, runs, call, ret>>

session == <<file, settings, token_map, preview_masked, loaded, errors, out_file, pc,
             run, runs>>

NoRun == [active |-> FALSE]

\* A session starts with an empty token map and no preview.  The input file
\* and the sidebar settings are chosen at the start and kept.
Init ==
    /\ file \in Files
    /\ settings \in [cols : ColsChoices, policy : Policies]
    /\ token_map = <<>>
    /\ preview_masked = <<>>
    /\ loaded = <<>>
    /\ errors = <<>>
    /\ out_file = <<>>
    /\ pc = "idle"
    /\ run = NoRun
    /\ runs = 0
    /\ call = [fn |-> "none"]
    /\ ret = <<>>

\* the button of the token map import, with a readable JSON file holding m
ImportTokenMap(m) ==
    /\ pc = "idle"
    /\ loaded' = <<m>>
    /\ token_map' = MapUpdate(token_map, m)
    /\ errors' = <<>>
    /\ UNCHANGED <<file, settings, preview_masked, out_file, pc, run, runs, call, ret>>

\* the same button when open or json.load raises
ImportTokenMapFails ==
    /\ pc = "idle"
    /\ loaded' = <<>>
    /\ errors' = <<"import_failed">>
    /\ UNCHANGED <<file, settings, token_map, preview_masked, out_file, pc, run, runs, call, ret>>

\* the preview button: the dispatcher on a copy of the preview table
PreviewMask ==
    /\ pc = "idle"
    /\ LET p == settings.policy
           r == ApplyMasking(read_preview_from_path(file), settings.cols, p.method,
                             p.head_n, p.tail_n, p.salt, p.regex_pat, p.preset,
                             token_map)
       IN  /\ preview_masked' = <<r.chunk>>
           /\ token_map' = r.token_map
           /\ errors' = r.errors
    /\ loaded' = <<>>
    /\ UNCHANGED <<file, settings, out_file, pc, run, runs, call, ret>>

\* the streaming button with no target column: a warning, nothing else
StreamNoColumns ==
    /\ pc = "idle"
    /\ settings.cols = <<>>
    /\ loaded' = <<>>
    /\ errors' = <<>>
    /\ UNCHANGED <<file, settings, token_map, preview_masked, out_file, pc, run, runs, call, ret>>

\* the streaming button up to the first read of the loop
StreamStart(chunksize) ==
    /\ pc = "idle"
    /\ settings.cols # <<>>
    /\ runs < MaxRuns
    /\ runs' = runs + 1
    /\ pc' = "streaming"
    /\ run' = [active |-> TRUE, cols |-> settings.cols, policy |-> settings.policy,
               chunksize |-> chunksize, write_header |-> TRUE, processed |-> 0,
               tm_at_start |-> token_map, len_at_start |-> Len(out_file)]
    /\ loaded' = <<>>
    /\ errors' = <<>>
    /\ UNCHANGED <<file, settings, token_map, preview_masked, out_file, call, ret>>

\* one iteration of the loop: read a chunk, mask it, append it
StreamBatch ==
    /\ pc = "streaming"
    /\ HasNextChunk(ReadCsvText(file), run.processed, run.write_header)
    /\ LET chunk == NextChunk(ReadCsvText(file), run.processed, run.chunksize)
           p     == run.policy
           r     == ApplyMasking(chunk, run.cols, p.method, p.head_n, p.tail_n, p.salt,
                                 p.regex_pat, p.preset, token_map)
       IN  /\ token_map' = r.token_map
           /\ errors' = errors \o r.errors
           /\ out_file' = out_file \o CsvLines(r.chunk, run.write_header)
           /\ run' = [run EXCEPT !.write_header = FALSE,
                                 !.processed = @ + Len(chunk.rows)]
    /\ UNCHANGED <<file, settings, preview_masked, loaded, pc, runs, call, ret>>

\* the reader is exhausted: progress 100 and return out_path
StreamFinish ==
    /\ pc = "streaming"
    /\ ~HasNextChunk(ReadCsvText(file), run.processed, run.write_header)
    /\ pc' = "idle"
    /\ run' = NoRun
    /\ UNCHANGED <<file, settings, token_map, preview_masked, loaded, errors,
                   out_file, runs, call, ret>>

\* a read or write error, or the script run being stopped, ends the run where
\* it is; what was appended stays in the file
StreamAbort ==
    /\ pc = "streaming"
    /\ pc' = "idle"
    /\ run' = NoRun
    /\ errors' = Append(errors, "stream_aborted")
    /\ UNCHANGED <<file, settings, token_map, preview_masked, loaded, out_file, runs,
                   call, ret>>

Next ==
    \/ \E m \in ImportableMaps : ImportTokenMap(m)
    \/ ImportTokenMapFails
    \/ PreviewMask
    \/ StreamNoColumns
    \/ \E n \in ChunkSizes : StreamStart(n)
    \/ StreamBatch
    \/ StreamFinish
    \/ StreamAbort

Spec == Init /\ [][Next]_vars

(***************************************************************************)
(* a session that finds an output file of an earlier run                   *)
(***************************************************************************)

\* what a run of an earlier session over the same input, with the same
\* settings and its own empty token map, wrote in one batch
EarlierRunLines(f, st) ==
    LET p == st.policy
    IN  CsvLines(ApplyMasking(ReadCsvText(f), st.cols, p.method, p.head_n, p.tail_n,
                              p.salt, p.regex_pat, p.preset, <<>>).chunk, TRUE)

\* the file at out_path when the session starts: what the earlier run
\* wrote, whole or cut off after any of its lines.  With no target column
\* the streaming button writes nothing and there is no file.
LeftOvers(f, st) ==
    IF st.cols = <<>> THEN { <<>> }
    ELSE { SubSeq(EarlierRunLines(f, st), 1, n) : n \in 1..Len(EarlierRunLines(f, st)) }

InitRerun ==
    /\ file \in Files
    /\ settings \in [cols : ColsChoices, policy : Policies]
    /\ out_file \in LeftOvers(file, settings)
    /\ token_map = <<>>
    /\ preview_masked = <<>>
    /\ loaded = <<>>
    /\ errors = <<>>
    /\ pc = "idle"
    /\ run = NoRun
    /\ runs = 0
    /\ call = [fn |-> "none"]
    /\ ret = <<>>

SpecRerun == InitRerun /\ [][Next]_vars

(***************************************************************************)
(* letter case, suffixes and the name of the output file                   *)
(***************************************************************************)

UpperLetters ==
    <<"A", "B", "C", "D", "E", "F", "G", "H", "I", "J", "K", "L", "M",
      "N", "O", "P", "Q", "R", "S", "T", "U", "V", "W", "X", "Y", "Z">>

LowerLetters ==
    <<"a", "b", "c", "d", "e", "f", "g", "h", "i", "j", "k", "l", "m",
      "n", "o", "p", "q", "r", "s", "t", "u", "v", "w", "x", "y", "z">>

\* str.lower() and str.upper(), character by character; a character that is
\* no Latin letter is kept
LowerChar(ch) ==
    IF \E i \in DOMAIN UpperLetters : UpperLetters[i] = ch
    THEN LowerLetters[CHOOSE i \in DOMAIN UpperLetters : UpperLetters[i] = ch]
    ELSE ch

UpperChar(ch) ==
    IF \E i \in DOMAIN LowerLetters : LowerLetters[i] = ch
    THEN UpperLetters[CHOOSE i \in DOMAIN LowerLetters : LowerLetters[i] = ch]
    ELSE ch

Lower(x) == [i \in DOMAIN x |-> LowerChar(x[i])]
Upper(x) == [i \in DOMAIN x |-> UpperChar(x[i])]

\* x.endswith(suf)
EndsWith(x, suf) ==
    /\ Len(suf) <= Len(x)
    /\ SubSeq(x, Len(x) - Len(suf) + 1, Len(x)) = suf

\* os.path.basename(path): what follows the last "/"
Basename(path) ==
    LET slashes == { i \in DOMAIN path : path[i] = "/" }
        last    == IF slashes = {} THEN 0
                   ELSE CHOOSE i \in slashes : \A j \in slashes : j <= i
    IN  SubSeq(path, last + 1, Len(path))

\* _sep_from_path(path)
_sep_from_path(path) ==
    IF \/ EndsWith(Lower(path), <<".", "t", "s", "v">>)
       \/ EndsWith(Lower(path), <<".", "t", "s", "v", ".", "g", "z">>)
    THEN "\t" ELSE ","

\* the suffixes stream_mask_save strips, in the order it tries them
StripSuffixes ==
    << <<".", "c", "s", "v", ".", "g", "z">>,
       <<".", "t", "s", "v", ".", "g", "z">>,
       <<".", "x", "l", "s", "x">>,
       <<".", "x", "l", "s">>,
       <<".", "c", "s", "v">>,
       <<".", "t", "s", "v">> >>

\* the for loop with break: the base name without the first suffix of the
\* list that its lower-case form ends with
StripFrom(base, k) ==
    LET hits == { i \in k..Len(StripSuffixes) : EndsWith(Lower(base), StripSuffixes[i]) }
    IN  IF hits = {} THEN base
        ELSE LET first == CHOOSE i \in hits : \A j \in hits : i <= j
             IN  SubSeq(base, 1, Len(base) - Len(StripSuffixes[first]))

\* the literal stream_mask_save puts between the base name and the extension
OutNameInfix == <<"_", "m", "a", "k", "e", "d">>

\* out_name of stream_mask_save(path, ..., gzip_save)
OutName(path, gzip_save) ==
    LET sep  == _sep_from_path(path)
        base == StripFrom(Basename(path), 1)
        ext  == IF sep = "\t" THEN <<".", "t", "s", "v">> ELSE <<".", "c", "s", "v">>
        name == base \o OutNameInfix \o ext
    IN  IF gzip_save /\ ext = <<".", "c", "s", "v">> THEN name \o <<".", "g", "z">> ELSE name

(***************************************************************************)
(* convert_excel_type_to_snowflake                                         *)
(***************************************************************************)

\* type_mapping, in the order of the dict literal: <<key, value>>.  A
\* character outside ASCII is written as its code point, "U+6587"; it is
\* one character of the text like any other.
type_mapping ==
    << <<<<"U+6587", "U+5B57", "U+5217">>, <<"v", "a", "r", "c", "h", "a", "r">>>>,
       <<<<"V", "A", "R", "C", "H", "A", "R">>, <<"v", "a", "r", "c", "h", "a", "r">>>>,
       <<<<"C", "H", "A", "R">>, <<"v", "a", "r", "c", "h", "a", "r">>>>,
       <<<<"T", "E", "X", "T">>, <<"v", "a", "r", "c", "h", "a", "r">>>>,
       <<<<"U+6570", "U+5024">>, <<"n", "u", "m", "b", "e", "r">>>>,
       <<<<"N", "U", "M", "B", "E", "R">>, <<"n", "u", "m", "b", "e", "r">>>>,
       <<<<"I", "N", "T">>, <<"n", "u", "m", "b", "e", "r">>>>,
       <<<<"I", "N", "T", "E", "G", "E", "R">>, <<"n", "u", "m", "b", "e", "r">>>>,
       <<<<"D", "E", "C", "I", "M", "A", "L">>, <<"n", "u", "m", "b", "e", "r">>>>,
       <<<<"N", "U", "M", "E", "R", "I", "C">>, <<"n", "u", "m", "b", "e", "r">>>>,
       <<<<"F", "L", "O", "A", "T">>, <<"f", "l", "o", "a", "t">>>>,
       <<<<"D", "O", "U", "B", "L", "E">>, <<"d", "o", "u", "b", "l", "e">>>>,
       <<<<"U+65E5", "U+4ED8">>, <<"d", "a", "t", "e">>>>,
       <<<<"D", "A", "T", "E">>, <<"d", "a", "t", "e">>>>,
       <<<<"U+65E5", "U+6642">>, <<"t", "i", "m", "e", "s", "t", "a", "m", "p">>>>,
       <<<<"D", "A", "T", "E", "T", "I", "M", "E">>, <<"t", "i", "m", "e", "s", "t", "a", "m", "p">>>>,
       <<<<"T", "I", "M", "E", "S", "T", "A", "M", "P">>, <<"t", "i", "m", "e", "s", "t", "a", "m", "p">>>>,
       <<<<"U+6642", "U+523B">>, <<"t", "i", "m", "e">>>>,
       <<<<"T", "I", "M", "E">>, <<"t", "i", "m", "e">>>>,
       <<<<"B", "O", "O", "L", "E", "A", "N">>, <<"b", "o", "o", "l", "e", "a", "n">>>>,
       <<<<"B", "O", "O", "L">>, <<"b", "o", "o", "l", "e", "a", "n">>>> >>

Varchar100 == <<"v", "a", "r", "c", "h", "a", "r", "(", "1", "0", "0", ")">>

\* str.strip() for blanks
RECURSIVE StripLeft(_)
StripLeft(x) ==
    IF x # <<>> /\ Head(x) = " " THEN StripLeft(Tail(x)) ELSE x

RECURSIVE StripRight(_)
StripRight(x) ==
    IF x # <<>> /\ x[Len(x)] = " " THEN StripRight(SubSeq(x, 1, Len(x) - 1)) ELSE x

Strip(x) == StripRight(StripLeft(x))

\* key in x
Contains(x, key) ==
    \E i \in 1..(Len(x) - Len(key) + 1) : SubSeq(x, i, i + Len(key) - 1) = key

\* a matcher that never matches
SizedMatchNever(u) == <<>>

\* re.match(r'([A-Z]+)\((\d+)\)', u): <<>> for no match, else the two groups.
\* The match is anchored at the start only; "(" is no letter and ")" no
\* digit, so both runs are the longest ones.
SizedMatch(u) ==
    LET n == RunLen(u, 1, Range(UpperLetters))
        d == RunLen(u, n + 2, Range(Digits))
    IN  IF /\ n >= 1
           /\ n + 1 <= Len(u) /\ u[n + 1] = "("
           /\ d >= 1
           /\ n + d + 2 <= Len(u) /\ u[n + d + 2] = ")"
        THEN <<[base_type |-> SubSeq(u, 1, n), size |-> SubSeq(u, n + 2, n + d + 1)]>>
        ELSE <<>>

\* the for loop over type_mapping.items() from entry k on
RECURSIVE MappingFrom(_, _, _)
MappingFrom(excel_type, u, k) ==
    IF k > Len(type_mapping) THEN Varchar100
    ELSE LET key   == type_mapping[k][1]
             value == type_mapping[k][2]
         IN  IF Contains(u, key) \/ Contains(key, u)
             THEN IF value = <<"v", "a", "r", "c", "h", "a", "r">> /\ "(" \notin Range(excel_type)
                  THEN Varchar100
                  ELSE value
             ELSE MappingFrom(excel_type, u, k + 1)

convert_excel_type_to_snowflake(excel_type) ==
    IF excel_type = <<>> THEN Varchar100
    ELSE LET excel_type_upper == Strip(Upper(excel_type))
             match            == SizedMatch(excel_type_upper)
         IN  IF /\ match # <<>>
                /\ match[1].base_type \in {<<"V", "A", "R", "C", "H", "A", "R">>, <<"C", "H", "A", "R">>}
             THEN <<"v", "a", "r", "c", "h", "a", "r">> \o <<"(">> \o match[1].size \o <<")">>
             ELSE IF /\ match # <<>>
                     /\ match[1].base_type \in {<<"N", "U", "M", "B", "E", "R">>, <<"D", "E", "C", "I", "M", "A", "L">>,
                                                 <<"N", "U", "M", "E", "R", "I", "C">>}
                  THEN <<"n", "u", "m", "b", "e", "r">> \o <<"(">> \o match[1].size \o <<")">>
                  ELSE MappingFrom(excel_type, excel_type_upper, 1)

(***************************************************************************)
(* generate_dbt_sql_with_mapping                                           *)
(***************************************************************************)

\* the selectbox entry for "no column chosen"
Unselected == "U+672AU+9078U+629E"

\* a role column argument that is None; as a Python value it is falsy
NoColumn == ""

\* `col and col != Unselected`
Designated(col) == col # NoColumn /\ col # Unselected

\* pd.notna(cell)
NotNa(cell) == cell # NaN

\* a mask that is padded with True
SelectedMaskPadTrue(selected_rows, n) ==
    SubSeq(SubSeq(selected_rows, 1, Min(n, Len(selected_rows)))
               \o [i \in 1..Max(0, n - Len(selected_rows)) |-> TRUE],
           1, n)

\* selected_rows[:len(df)] + [False] * max(0, len(df) - len(selected_rows)),
\* then [:len(df)]
SelectedMask(selected_rows, n) ==
    SubSeq(SubSeq(selected_rows, 1, Min(n, Len(selected_rows)))
               \o [i \in 1..Max(0, n - Len(selected_rows)) |-> FALSE],
           1, n)

\* the positions of df that df[selected_mask] keeps, in order; every
\* position when selected_rows is None (<<>>), else those of <<mask>>
RECURSIVE KeptFrom(_, _)
KeptFrom(mask, i) ==
    IF i > Len(mask) THEN <<>>
    ELSE (IF mask[i] THEN <<i>> ELSE <<>>) \o KeptFrom(mask, i + 1)

FilteredPositions(df, selected_rows) ==
    IF selected_rows # <<>>
    THEN KeptFrom(SelectedMask(selected_rows[1], Len(df)), 1)
    ELSE [i \in 1..Len(df) |-> i]

\* .dropna(subset=[physical_col]) on the filtered rows
RECURSIVE DropNaFrom(_, _, _, _)
DropNaFrom(df, positions, physical_col, k) ==
    IF k > Len(positions) THEN <<>>
    ELSE (IF NotNa(df[positions[k]][physical_col]) THEN <<positions[k]>> ELSE <<>>)
         \o DropNaFrom(df, positions, physical_col, k + 1)

\* the positions in df of the rows of df_clean
CleanPositions(df, physical_col, selected_rows) ==
    DropNaFrom(df, FilteredPositions(df, selected_rows), physical_col, 1)

\* str(row[physical_col]).strip()
ColName(row, physical_col) == Strip(row[physical_col])

\* `if not col_name or col_name == 'nan': continue`
SkipsName(col_name) == col_name = <<>> \/ col_name = <<"n", "a", "n">>

\* the types whose column is read through nullif
NullifTypes ==
    << <<"n", "u", "m", "b", "e", "r">>, <<"i", "n", "t">>, <<"d", "e", "c", "i", "m", "a", "l">>, <<"f", "l", "o", "a", "t">>, <<"d", "o", "u", "b", "l", "e">>, <<"d", "a", "t", "e">>, <<"t", "i", "m", "e", "s", "t", "a", "m", "p">> >>

UsesNullif(snowflake_type) ==
    \E k \in DOMAIN NullifTypes : Contains(Lower(snowflake_type), NullifTypes[k])

\* the first loop over df_clean from its k-th row on: one column definition
\* per row that is not skipped, col_index counting the definitions
RECURSIVE ExtractFrom(_, _, _, _, _, _)
ExtractFrom(df, clean, physical_col, type_col, k, col_index) ==
    IF k > Len(clean) THEN <<>>
    ELSE LET row       == df[clean[k]]
             col_name  == ColName(row, physical_col)
             data_type == IF NotNa(row[type_col]) THEN Strip(row[type_col])
                          ELSE Varchar100
             snowflake_type == convert_excel_type_to_snowflake(data_type)
         IN  IF SkipsName(col_name)
             THEN ExtractFrom(df, clean, physical_col, type_col, k + 1, col_index)
             ELSE <<[slot   |-> <<"c">> \o DecimalText(col_index),
                     nullif |-> UsesNullif(snowflake_type),
                     type   |-> snowflake_type,
                     name   |-> col_name,
                     row    |-> clean[k]]>>
                  \o ExtractFrom(df, clean, physical_col, type_col, k + 1, col_index + 1)

\* a test for the gender columns that looks for the small-letter word only
IsGenderNameCaseSensitive(col_name) ==
    Contains(col_name, <<"g", "e", "n", "d", "e", "r">>) \/ Contains(col_name, <<"U+6027", "U+5225">>)

\* 'gender' in col_name.lower() or the Japanese word in col_name
IsGenderName(col_name) ==
    Contains(Lower(col_name), <<"g", "e", "n", "d", "e", "r">>) \/ Contains(col_name, <<"U+6027", "U+5225">>)

\* the second loop over df_clean: one SELECT expression per row that is not
\* skipped
RECURSIVE SelectFrom(_, _, _, _)
SelectFrom(df, clean, physical_col, k) ==
    IF k > Len(clean) THEN <<>>
    ELSE LET col_name == ColName(df[clean[k]], physical_col)
         IN  (IF SkipsName(col_name) THEN <<>>
              ELSE <<[kind |-> IF IsGenderName(col_name) THEN "case" ELSE "column",
                      name |-> col_name,
                      row  |-> clean[k]]>>)
             \o SelectFrom(df, clean, physical_col, k + 1)

\* .replace('\n', ' ').replace('\r', ' ')
NewlinesToSpaces(x) ==
    [i \in DOMAIN x |-> IF x[i] \in {"\n", "\r"} THEN " " ELSE x[i]]

\* ' '.join(x.split()): no blank at either end, one blank between words
RECURSIVE SqueezeFrom(_, _)
SqueezeFrom(x, i) ==
    IF i > Len(x) THEN <<>>
    ELSE IF x[i] = " " /\ i > 1 /\ x[i - 1] = " " THEN SqueezeFrom(x, i + 1)
    ELSE <<x[i]>> \o SqueezeFrom(x, i + 1)

JoinSplit(x) == SqueezeFrom(Strip(x), 1)

\* .replace('"', '\\"')
RECURSIVE EscapeQuotesFrom(_, _)
EscapeQuotesFrom(x, i) ==
    IF i > Len(x) THEN <<>>
    ELSE (IF x[i] = "\"" THEN <<"\\", "\"">> ELSE <<x[i]>>) \o EscapeQuotesFrom(x, i + 1)

\* the three steps that make a text fit a double-quoted YAML scalar
CleanText(x) == EscapeQuotesFrom(JoinSplit(NewlinesToSpaces(x)), 1)

YmlLine(kind, text) == [kind |-> kind, text |-> text]

\* the value of a role column in a row as a description part: <<>> when the
\* column is not designated or the cell is missing, blank or 'nan'
DescriptionPart(row, col) ==
    IF Designated(col) /\ NotNa(row[col])
    THEN LET v == Strip(row[col])
         IN  IF v # <<>> /\ v # <<"n", "a", "n">> THEN <<v>> ELSE <<>>
    ELSE <<>>

\* the description of a column entry
ColumnDescription(row, col_name, logical_col, desc_col) ==
    LET description_parts ==
            DescriptionPart(row, logical_col) \o DescriptionPart(row, desc_col)
    IN  IF description_parts # <<>>
        THEN CleanText(IF Len(description_parts) > 1
                       THEN description_parts[1] \o <<":", " ">> \o description_parts[2]
                       ELSE description_parts[1])
        ELSE col_name

\* the loop over df_clean that appends the column entries to yml_lines
RECURSIVE YmlColumnsFrom(_, _, _, _, _, _)
YmlColumnsFrom(df, clean, physical_col, logical_col, desc_col, k) ==
    IF k > Len(clean) THEN <<>>
    ELSE LET row      == df[clean[k]]
             col_name == ColName(row, physical_col)
         IN  (IF SkipsName(col_name) THEN <<>>
              ELSE <<YmlLine("name", col_name),
                     YmlLine("column_description",
                             ColumnDescription(row, col_name, logical_col, desc_col)),
                     YmlLine("data_tests", <<>>),
                     YmlLine("not_null", <<>>)>>
                   \o (IF \/ Contains(Lower(col_name), <<"i", "d">>)
                           \/ Contains(Lower(col_name), <<"k", "e", "y">>)
                        THEN <<YmlLine("unique", <<>>)>> ELSE <<>>))
             \o YmlColumnsFrom(df, clean, physical_col, logical_col, desc_col, k + 1)

\* the default description of a model: its name and a fixed text
DefaultDescription(model_name) ==
    model_name \o <<"U+306E", "U+30C6", "U+30FC", "U+30D6", "U+30EB", "U+5B9A", "U+7FA9">>

\* yml_lines when the schema definition is attempted
YmlLines(a, clean) ==
    <<YmlLine("model", a.model_name),
      YmlLine("description",
              IF Strip(a.model_description) # <<>>
              THEN CleanText(Strip(a.model_description))
              ELSE DefaultDescription(a.model_name)),
      YmlLine("columns", <<>>)>>
    \o YmlColumnsFrom(a.df, clean, a.physical_col, a.logical_col, a.desc_col, 1)

\* `include_comments and (logical_col and logical_col != Unselected or
\* desc_col and desc_col != Unselected)`
YmlAttempted(a) ==
    a.include_comments /\ (Designated(a.logical_col) \/ Designated(a.desc_col))

\* generate_dbt_sql_with_mapping with the arguments a: the two values it
\* returns (<<>> is None) and the st.error reports.  The SQL text is kept
\* as its column definitions and its SELECT expressions.  For a sheet
\* without rows the mask is the empty list, which df[...] takes as a list
\* of no column labels and not as a boolean mask; df_filtered[cols_to_use]
\* then raises KeyError and nothing is returned.
generate_dbt_sql_with_mapping(a) ==
    IF a.physical_col = NoColumn \/ a.type_col = NoColumn
    THEN [sql |-> <<>>, schema_yml |-> <<>>, errors |-> <<"columns_missing">>]
    ELSE IF a.selected_rows # <<>> /\ Len(a.df) = 0
    THEN [sql |-> <<>>, schema_yml |-> <<>>, errors |-> <<"KeyError">>]
    ELSE LET clean == CleanPositions(a.df, a.physical_col, a.selected_rows)
             yml_lines == YmlLines(a, clean)
         IN  [sql |-> <<[columns |-> ExtractFrom(a.df, clean, a.physical_col,
                                                 a.type_col, 1, 1),
                         select_columns |-> SelectFrom(a.df, clean, a.physical_col, 1),
                         source |-> <<a.source_schema, a.source_table>>]>>,
              schema_yml |->
                  IF YmlAttempted(a) /\ Len(yml_lines) > 3
                  THEN <<yml_lines>> ELSE <<>>,
              errors |-> <<>>]

(***************************************************************************)
(* direct calls of the masking functions                                   *)
(***************************************************************************)

\* most characters kept at the head or at the tail in a direct call
MaxKeep == 3

DigitsText == <<"1", "2", "3", "4", "5", "6", "7", "8", "9", "0">>

\* one-row chunks with the columns A and B
CallChunks ==
    { [columns |-> FileColumns, rows |-> <<FileRow(a, b)>>] :
        a \in { NaN, <<>>, <<"a">>, <<"a", "a", "b">>, DigitsText },
        b \in { <<>>, <<"a", "b">> } }

\* target lists: none, one column, two columns, a label that is no column
CallCols == { <<>>, <<"A">>, <<"A", "B">>, <<"C">> }

CallRegexes == { <<>>, <<"(">>, <<"a">>, <<"a", "b">>, <<"2", "3">> }

\* the method a call names and the parameter that method reads; the last
\* one names no method of the dispatcher
CallPolicies ==
    { Policy("full", 0, 0, <<>>, <<>>, "None"),
      Policy("hash", 0, 0, <<"s">>, <<>>, "None"),
      Policy("tokenize", 0, 0, <<>>, <<>>, "None"),
      Policy("unknown", 0, 0, <<>>, <<>>, "None") }
    \cup { Policy("partial", h, t, <<>>, <<>>, "None") : h \in 0..MaxKeep, t \in 0..MaxKeep }
    \cup { Policy("regex", 0, 0, <<>>, re, "None") : re \in CallRegexes }
    \cup { Policy("preset", 0, 0, <<>>, <<>>, pr) : pr \in PresetNames }

CallTokenMaps == { <<>>, MapPut(<<>>, <<"a">>, TokenOf(1)) }

\* input paths: every recognized suffix, letter case, a directory, an
\* unrecognized suffix and none
CallPaths ==
    { <<"d", "/", "a", ".", "c", "s", "v">>,
      <<"a", ".", "C", "S", "V">>,
      <<"a", ".", "t", "s", "v">>,
      <<"d", "/", "a", ".", "T", "S", "V", ".", "g", "z">>,
      <<"a", ".", "c", "s", "v", ".", "g", "z">>,
      <<"a", ".", "x", "l", "s", "x">>,
      <<"a", ".", "x", "l", "s">>,
      <<"a", ".", "t", "x", "t">>,
      <<"a">>,
      <<"b", ".", "d", "/", "a", ".", "t", "s", "v">> }

\* most digits of a declared size
MaxDigits == 2

SizeDigits == {"0", "1", "5"}

\* the digit strings of 1 .. MaxDigits digits
DigitStrings ==
    UNION { [1..n -> SizeDigits] : n \in 1..MaxDigits }

\* a word as typed in capitals, in small letters, or capitalized
Capitalize(x) ==
    [i \in DOMAIN x |-> IF i = 1 THEN UpperChar(x[i]) ELSE LowerChar(x[i])]

CaseVariants(x) == { Upper(x), Lower(x), Capitalize(x) }

\* type names that are written with a size: the five the sized branch
\* handles and two it does not
SizedBases ==
    { <<"V", "A", "R", "C", "H", "A", "R">>,
      <<"C", "H", "A", "R">>,
      <<"N", "U", "M", "B", "E", "R">>,
      <<"D", "E", "C", "I", "M", "A", "L">>,
      <<"N", "U", "M", "E", "R", "I", "C">>,
      <<"T", "E", "X", "T">>,
      <<"I", "N", "T">> }

Sized(letters, digits) == letters \o <<"(">> \o digits \o <<")">>

\* declared types: every key of the table in three letter cases, sized
\* types, and types that are empty, blank, unknown or oddly sized
CallTypes ==
    UNION { CaseVariants(type_mapping[k][1]) : k \in DOMAIN type_mapping }
    \cup { Sized(l, d) : l \in UNION { CaseVariants(b) : b \in SizedBases },
                         d \in DigitStrings }
    \cup { <<>>,
           <<" ">>,
           <<" ", " ">>,
           <<"U+4E0D", "U+660E">>,
           <<"?">>,
           <<"Z", "Z", "(", "5", ")">>,
           <<"V", "A", "R", "C", "H", "A", "R", "(", "M", "A", "X", ")">>,
           <<"N", "U", "M", "B", "E", "R", "(", "1", "0", ",", "2", ")">>,
           <<" ", "V", "A", "R", "C", "H", "A", "R", "(", "1", "0", ")", " ">>,
           <<"U+6587", "U+5B57", "U+5217", "(", "1", "0", ")">>,
           <<"V", "A", "R", "C", "H", "A", "R", " ", "(", "1", "0", ")">>,
           <<"V", "A", "R", "C", "H", "A", "R", "(", "1", "0", ")", "X">>,
           <<"N">> }

Calls ==
    [fn : {"_apply_masking"}, chunk : CallChunks, cols : CallCols,
     policy : CallPolicies, tm : CallTokenMaps]
    \cup
    [fn : {"mask_keep_head_tail"},
     s : { <<c.rows[1].A, c.rows[1].B>> : c \in CallChunks },
     head : 0..MaxKeep, tail : 0..MaxKeep]
    \cup
    [fn : {"stream_mask_save"}, path : CallPaths, gzip_save : BOOLEAN]
    \cup
    [fn : {"convert_excel_type_to_snowflake"}, excel_type : CallTypes]

InitCall ==
    /\ call \in Calls
    /\ ret = <<>>
    /\ file = [columns |-> FileColumns, rows |-> <<>>]
    /\ settings = [cols |-> <<>>, policy |-> Policy("full", 0, 0, <<>>, <<>>, "None")]
    /\ token_map = <<>>
    /\ preview_masked = <<>>
    /\ loaded = <<>>
    /\ errors = <<>>
    /\ out_file = <<>>
    /\ pc = "idle"
    /\ run = NoRun
    /\ runs = 0

\* _apply_masking(chunk, cols, method, ...) returns
ApplyMaskingReturns ==
    /\ call.fn = "_apply_masking"
    /\ ret = <<>>
    /\ ret' = <<ApplyMasking(call.chunk, call.cols, call.policy.method,
                             call.policy.head_n, call.policy.tail_n, call.policy.salt,
                             call.policy.regex_pat, call.policy.preset, call.tm)>>
    /\ UNCHANGED <<call, session>>

\* mask_keep_head_tail(s, head, tail) returns
KeepHeadTailReturns ==
    /\ call.fn = "mask_keep_head_tail"
    /\ ret = <<>>
    /\ ret' = <<mask_keep_head_tail(call.s, call.head, call.tail)>>
    /\ UNCHANGED <<call, session>>

\* stream_mask_save(path, ..., gzip_save) up to out_name: the name of the
\* file it writes
OutNameReturns ==
    /\ call.fn = "stream_mask_save"
    /\ ret = <<>>
    /\ ret' = <<OutName(call.path, call.gzip_save)>>
    /\ UNCHANGED <<call, session>>

\* convert_excel_type_to_snowflake(excel_type) returns
ConvertTypeReturns ==
    /\ call.fn = "convert_excel_type_to_snowflake"
    /\ ret = <<>>
    /\ ret' = <<convert_excel_type_to_snowflake(call.excel_type)>>
    /\ UNCHANGED <<call, session>>

NextCall ==
    \/ ApplyMaskingReturns
    \/ KeepHeadTailReturns
    \/ OutNameReturns
    \/ ConvertTypeReturns

SpecCall == InitCall /\ [][NextCall]_vars

(***************************************************************************)
(* direct calls of the SQL generator                                       *)
(***************************************************************************)

\* most rows of a design sheet
MaxRows == 3

\* a description with a doubled blank and a quoted word
SexText == <<"m", " ", " ", "\"", "f", "\"">>

DesignRow(physical, type, logical, desc) ==
    [physical |-> physical, type |-> type, logical |-> logical, desc |-> desc]

\* rows of a sheet as pd.read_excel gives them: a cell is text or missing.
\* Names: plain, blank, with the word gender in capitals, missing, the text
\* nan behind a blank, the Japanese word for gender.
DesignRows ==
    { DesignRow(<<"i", "d">>, <<"I", "N", "T">>, <<"I", "D">>, NaN),
      DesignRow(<<" ">>, <<"V", "A", "R", "C", "H", "A", "R">>, NaN, NaN),
      DesignRow(<<"G", "E", "N", "D", "E", "R", "_", "c", "d">>,
                <<"N", "U", "M", "B", "E", "R">>, NaN, SexText),
      DesignRow(NaN, <<"D", "A", "T", "E">>, <<"I", "D">>, NaN),
      DesignRow(<<" ", "n", "a", "n">>, NaN, NaN, NaN),
      DesignRow(<<"U+6027", "U+5225">>, NaN, <<"I", "D">>, SexText) }

Sheets == UNION { [1..n -> DesignRows] : n \in 0..MaxRows }

\* selected_rows: None, or a list of booleans that is shorter than the
\* sheet, as long, or longer by one
RowMasks ==
    { <<>> } \cup { <<m>> : m \in UNION { [1..n -> BOOLEAN] : n \in 0..(MaxRows + 1) } }

\* the role columns and the models.yml checkbox
GenOptions ==
    { [physical_col |-> "physical", type_col |-> "type", logical_col |-> l,
       desc_col |-> d, include_comments |-> ic] :
        l \in {NoColumn, Unselected, "logical"}, d \in {NoColumn, "desc"},
        ic \in BOOLEAN }
    \cup
    { [physical_col |-> NoColumn, type_col |-> "type", logical_col |-> "logical",
       desc_col |-> NoColumn, include_comments |-> TRUE] }

GenCall(df, m, o) ==
    [fn |-> "generate_dbt_sql_with_mapping", df |-> df, selected_rows |-> m,
     physical_col |-> o.physical_col, type_col |-> o.type_col,
     logical_col |-> o.logical_col, desc_col |-> o.desc_col,
     include_comments |-> o.include_comments,
     source_schema |-> <<"t", "e", "s", "t">>, source_table |-> <<"t">>,
     model_name |-> <<"t", "r", "s">>, model_description |-> <<>>]

\* the options of a run with all four role columns chosen
AllRoles ==
    [physical_col |-> "physical", type_col |-> "type", logical_col |-> "logical",
     desc_col |-> "desc", include_comments |-> TRUE]

\* a call: every sheet with every mask under all four roles, and every
\* sheet with every choice of options and no mask
InitGen ==
    /\ \E df \in Sheets, m \in RowMasks, o \in GenOptions :
           /\ m = <<>> \/ o = AllRoles
           /\ call = GenCall(df, m, o)
    /\ ret = <<>>
    /\ file = [columns |-> FileColumns, rows |-> <<>>]
    /\ settings = [cols |-> <<>>, policy |-> Policy("full", 0, 0, <<>>, <<>>, "None")]
    /\ token_map = <<>>
    /\ preview_masked = <<>>
    /\ loaded = <<>>
    /\ errors = <<>>
    /\ out_file = <<>>
    /\ pc = "idle"
    /\ run = NoRun
    /\ runs = 0

\* generate_dbt_sql_with_mapping(df, ...) returns
GenerateReturns ==
    /\ call.fn = "generate_dbt_sql_with_mapping"
    /\ ret = <<>>
    /\ ret' = <<generate_dbt_sql_with_mapping(call)>>
    /\ UNCHANGED <<call, session>>

NextGen == GenerateReturns

SpecGen == InitGen /\ [][NextGen]_vars

(***************************************************************************)
(* Properties of the session                                               *)
(***************************************************************************)

\* the sequence number a token carries after "TKN_"
SeqNo(token) == DecimalValue(SubSeq(token, 5, Len(token)))

\* the target columns of the settings that are columns of the file
TargetsOf(cols, t) == { c \in Range(cols) : c \in Range(t.columns) }

\* the import step that has just happened carried v with the token v now has
ImportedOver(v) ==
    /\ loaded' # <<>>
    /\ v \in DOMAIN loaded'[1]
    /\ token_map'[v] = loaded'[1][v]

\* C1: the token map is injective in every reachable state: no two distinct
\* raw values are mapped to the same token.
C1_TokenMapInjective ==
    \A j, k \in DOMAIN token_map : token_map[j] = token_map[k] => j = k

\* what a tokenize invocation returns for the raw cell x under the map tm
\* (a value without an entry has no token)
TokenLookup(tm, x) ==
    IF CellText(x) = <<>> THEN <<>>
    ELSE IF CellText(x) \in DOMAIN tm THEN tm[CellText(x)]
    ELSE <<"<no token>">>

\* the lines the streaming run in progress has appended so far
RunLines == SubSeq(out_file, run.len_at_start + 1, Len(out_file))

\* C2 as stated: a value that a tokenize invocation has given a token gets that
\* identical token from every later one: a streaming batch returns, for
\* every non-empty target cell, the token the earlier preview returned for
\* the same cell.
C2_SameTokenInLaterTokenize ==
    (/\ pc = "streaming"
     /\ run.policy.method = "tokenize"
     /\ preview_masked # <<>>) =>
        \A i \in 1..run.processed : \A k \in DOMAIN file.columns :
            (file.columns[k] \in Range(run.cols) /\ file.rows[i][file.columns[k]] # <<>>) =>
                RunLines[1 + i].fields[k] = preview_masked[1].rows[i][file.columns[k]]

\* C2 as amended: a value that has a token keeps it through every step but an
\* import that carries another token for that value, and a tokenize
\* invocation (preview or streaming batch) returns for every target cell the
\* token the map holds for its value.
C2_TokenStableUnlessImported ==
    [][/\ \A v \in DOMAIN token_map :
              /\ v \in DOMAIN token_map'
              /\ token_map'[v] # token_map[v] => ImportedOver(v)
       /\ (settings.policy.method = "tokenize" /\ preview_masked' # preview_masked) =>
              LET raw == read_preview_from_path(file)
              IN  \A i \in DOMAIN raw.rows : \A c \in TargetsOf(settings.cols, raw) :
                      preview_masked'[1].rows[i][c] = TokenLookup(token_map', raw.rows[i][c])
       /\ (pc = "streaming" /\ run.policy.method = "tokenize"
             /\ Len(out_file') > Len(out_file)) =>
              \A i \in (run.processed + 1)..run'.processed :
                  \A k \in DOMAIN file.columns :
                      file.columns[k] \in Range(run.cols) =>
                          out_file'[run.len_at_start + 1 + i].fields[k]
                              = TokenLookup(token_map', file.rows[i][file.columns[k]])]_vars

\* a preview gave a value the token 1, an import then carried the token 2
\* for it, and a later streaming batch returned the token 2
C2_Witness ==
    /\ pc = "streaming"
    /\ run.policy.method = "tokenize"
    /\ preview_masked # <<>>
    /\ EmailText \in DOMAIN token_map
    /\ token_map[EmailText] = TokenOf(2)
    /\ \E i \in 1..run.processed : \E k \in DOMAIN file.columns :
           /\ file.columns[k] \in Range(run.cols)
           /\ file.rows[i][file.columns[k]] = EmailText
           /\ preview_masked[1].rows[i][file.columns[k]] = TokenOf(1)
           /\ RunLines[1 + i].fields[k] = TokenOf(2)

\* C3: a raw value that a tokenize step adds to the map gets a sequence
\* number strictly greater than every sequence number the map held before.
C3_NewTokenAboveAll ==
    [][loaded' = <<>> =>
          \A v \in DOMAIN token_map' \ DOMAIN token_map :
              \A k \in DOMAIN token_map :
                  SeqNo(token_map'[v]) > SeqNo(token_map[k])]_vars

\* C4: the token map starts empty and no step removes a key; an import step
\* gives every imported key the imported token and leaves every other entry
\* as it was.
C4_MapGrowsImportMerges ==
    /\ token_map = <<>>
    /\ [][/\ DOMAIN token_map \subseteq DOMAIN token_map'
          /\ loaded' # <<>> =>
                /\ DOMAIN token_map' = DOMAIN token_map \cup DOMAIN loaded'[1]
                /\ \A k \in DOMAIN loaded'[1] : token_map'[k] = loaded'[1][k]
                /\ \A k \in DOMAIN token_map \ DOMAIN loaded'[1] :
                       token_map'[k] = token_map[k]]_vars

\* an import has overwritten the token a preview had given to one value and
\* kept the entry of another value
C4_Witness ==
    /\ loaded # <<>>
    /\ EmailText \in DOMAIN loaded[1]
    /\ loaded[1][EmailText] = TokenOf(2)
    /\ token_map[EmailText] = TokenOf(2)
    /\ CodeText \in DOMAIN token_map
    /\ preview_masked # <<>>
    /\ \E i \in DOMAIN preview_masked[1].rows :
           \E c \in TargetsOf(settings.cols, file) :
               /\ file.rows[i][c] = EmailText
               /\ preview_masked[1].rows[i][c] = TokenOf(1)

\* the streaming run in progress has read the whole input
RunComplete ==
    /\ pc = "streaming"
    /\ ~HasNextChunk(ReadCsvText(file), run.processed, run.write_header)

\* the dispatcher applied once to the whole table, from the token map the
\* run started with
OnePass ==
    LET p == run.policy
    IN  ApplyMasking(ReadCsvText(file), run.cols, p.method, p.head_n, p.tail_n, p.salt,
                     p.regex_pat, p.preset, run.tm_at_start)

\* C5 as stated: for every method and every list of target columns, the
\* batches a complete streaming run has written are, in order, the table
\* that one pass of the dispatcher over the whole input gives.
C5_StreamEqualsOnePass ==
    RunComplete => RunLines = CsvLines(OnePass.chunk, TRUE)

\* C5 as amended: the same, for every method but tokenize, and for tokenize
\* when at most one target column is a column of the table.
C5_StreamEqualsOnePassOneTokenColumn ==
    (/\ RunComplete
     /\ \/ run.policy.method # "tokenize"
        \/ Cardinality(TargetsOf(run.cols, file)) <= 1) =>
        RunLines = CsvLines(OnePass.chunk, TRUE)

\* a complete run of three batches that tokenized one column and gave out
\* new tokens in the second and third batch
C5_Witness ==
    /\ RunComplete
    /\ run.policy.method = "tokenize"
    /\ run.cols = <<"A">>
    /\ run.chunksize = 1
    /\ run.processed = 3
    /\ run.tm_at_start = <<>>
    /\ RunLines[4].fields[1] = TokenOf(2)

\* what the dispatcher leaves in a target cell that holds the text x
ExpectedCell(p, x, tm) ==
    CASE p.method = "full"     -> MaskFullCell(x)
      [] p.method = "partial"  -> KeepHeadTailCell(x, p.head_n, p.tail_n)
      [] p.method = "hash"     -> HashCell(x, p.salt)
      [] p.method = "tokenize" -> TokenLookup(tm, x)
      [] p.method = "regex"    -> IF p.regex_pat # <<>> /\ ReCompiles(p.regex_pat)
                                  THEN RegexCell(x, p.regex_pat) ELSE x
      [] p.method = "preset"   -> PresetCell(x, p.preset)

\* C6: while a streaming run is in progress, what it has appended is nothing
\* before the first batch and afterwards the header line once, first, and
\* then one line per input row read so far, the k-th line being the k-th
\* input row with its target fields masked and its other fields as read.
C6_HeaderOnceRowsInOrder ==
    pc = "streaming" =>
        IF run.write_header THEN RunLines = <<>> /\ run.processed = 0
        ELSE /\ Len(RunLines) = 1 + run.processed
             /\ RunLines[1] = [kind |-> "header", fields |-> file.columns]
             /\ \A i \in 1..run.processed :
                    /\ RunLines[1 + i].kind = "row"
                    /\ \A k \in DOMAIN file.columns :
                           RunLines[1 + i].fields[k] =
                               IF file.columns[k] \in Range(run.cols)
                               THEN ExpectedCell(run.policy,
                                        file.rows[i][file.columns[k]], token_map)
                               ELSE file.rows[i][file.columns[k]]

\* a run of two batches over three distinct rows has written all of them
C6_Witness ==
    /\ RunComplete
    /\ run.chunksize = 2
    /\ run.processed = 3
    /\ run.cols = <<"A">>
    /\ run.policy.method = "full"
    /\ Len(RunLines) = 4
    /\ RunLines[2].fields[2] # RunLines[4].fields[2]
    /\ RunLines[3].fields[1] = <<>>

\* C10: a target cell that is null or empty in the preview table is the
\* empty string after the preview masking, whatever the method, and a
\* tokenize preview adds no key for it.
C10_NullCellGivesEmpty ==
    preview_masked # <<>> =>
        \A i \in DOMAIN file.rows : \A c \in TargetsOf(settings.cols, file) :
            read_preview_from_path(file).rows[i][c] \in {NaN, <<>>} =>
                /\ preview_masked[1].rows[i][c] = <<>>
                /\ NanText \notin DOMAIN token_map

(***************************************************************************)
(* Properties of the direct calls                                          *)
(***************************************************************************)

\* the first n and the last n characters of x (all of x when n >= Len(x))
FirstChars(x, n) == [i \in 1..Min(n, Len(x)) |-> x[i]]
LastChars(x, n) == [i \in 1..Min(n, Len(x)) |-> x[Len(x) - Min(n, Len(x)) + i]]

\* head_keep characters, the asterisks, tail_keep characters
PartialMaskOf(x, head, tail) ==
    FirstChars(x, head) \o Stars(Max(0, Len(x) - head - tail)) \o LastChars(x, tail)

IsValue(x) == x # NaN /\ x # <<>>

\* C7: the partial mask of a non-empty value x is its first head_keep
\* characters, then max(0, len(x) - head_keep - tail_keep) asterisks, then
\* its last tail_keep characters, for all head_keep, tail_keep >= 0; both for
\* the dispatcher and for mask_keep_head_tail.
C7_PartialMaskShape ==
    ret # <<>> =>
        /\ (call.fn = "_apply_masking" /\ call.policy.method = "partial") =>
               \A c \in TargetsOf(call.cols, call.chunk) :
                   LET x == call.chunk.rows[1][c]
                   IN  IsValue(x) =>
                           ret[1].chunk.rows[1][c]
                               = PartialMaskOf(x, call.policy.head_n, call.policy.tail_n)
        /\ call.fn = "mask_keep_head_tail" =>
               \A i \in DOMAIN call.s :
                   IsValue(call.s[i]) =>
                       ret[1][i] = PartialMaskOf(call.s[i], call.head, call.tail)

\* C8: a call with a method name that is none of the six, on a chunk that
\* has a target column, reports a configuration error.
C8_UnknownMethodReported ==
    (/\ ret # <<>>
     /\ call.fn = "_apply_masking"
     /\ call.policy.method \notin Range(Methods)
     /\ TargetsOf(call.cols, call.chunk) # {}) =>
        ret[1].errors # <<>>

\* pattern occurs in x at position i
OccursAt(pattern, x, i) ==
    /\ i >= 1
    /\ i + Len(pattern) - 1 <= Len(x)
    /\ SubSeq(x, i, i + Len(pattern) - 1) = pattern

\* y is x with matches of pattern replaced by asterisks: as long as x, equal
\* to x outside the occurrences of pattern, "*" where it differs, and with
\* no occurrence of pattern left
MatchesStarred(pattern, x, y) ==
    /\ Len(y) = Len(x)
    /\ \A i \in 1..Len(x) :
           y[i] # x[i] =>
               /\ y[i] = "*"
               /\ \E j \in (i - Len(pattern) + 1)..i : OccursAt(pattern, x, j)
    /\ \A i \in 1..Len(y) : ~OccursAt(pattern, y, i)

RegexIsBad(pattern) == pattern = <<>> \/ "(" \in Range(pattern)

\* the regex half of C9 that does not depend on an error being reported:
\* with a bad pattern the chunk and the token map come back as they were,
\* with a good one every target value has its matches starred
RegexCallEffect ==
    IF RegexIsBad(call.policy.regex_pat)
    THEN /\ ret[1].chunk = call.chunk
         /\ ret[1].token_map = call.tm
    ELSE \A c \in TargetsOf(call.cols, call.chunk) :
             LET x == call.chunk.rows[1][c]
             IN  /\ IsValue(x) =>
                        MatchesStarred(call.policy.regex_pat, x, ret[1].chunk.rows[1][c])
                 /\ x = <<>> => ret[1].chunk.rows[1][c] = <<>>

RegexCallReturned ==
    /\ ret # <<>>
    /\ call.fn = "_apply_masking"
    /\ call.policy.method = "regex"

\* C9 as stated: a regex call with an empty or non-compiling pattern reports
\* a configuration error and returns every target column and the token map
\* unchanged; with a compiling pattern every match is replaced by as many
\* asterisks as it is long.
C9_RegexErrorAlwaysReported ==
    RegexCallReturned =>
        /\ RegexCallEffect
        /\ RegexIsBad(call.policy.regex_pat) => ret[1].errors # <<>>

\* C9 as amended: the error is reported once for every target column that is
\* a column of the chunk, so not at all when there is none; the rest as
\* stated.
C9_RegexErrorPerTargetColumn ==
    RegexCallReturned =>
        /\ RegexCallEffect
        /\ RegexIsBad(call.policy.regex_pat) =>
               /\ Len(ret[1].errors)
                      = Cardinality({ k \in DOMAIN call.cols :
                                        call.cols[k] \in Range(call.chunk.columns) })
               /\ \A k \in DOMAIN ret[1].errors :
                      ret[1].errors[k] =
                          IF call.policy.regex_pat = <<>> THEN "regex_missing"
                          ELSE "regex_error"
        /\ ~RegexIsBad(call.policy.regex_pat) => ret[1].errors = <<>>

\* a call with a pattern that does not compile and two target columns came
\* back with two reports and the values of both columns as they were
C9_Witness ==
    /\ RegexCallReturned
    /\ call.policy.regex_pat = <<"(">>
    /\ call.cols = <<"A", "B">>
    /\ call.chunk.rows[1].A = <<"a", "a", "b">>
    /\ call.chunk.rows[1].B = <<"a", "b">>
    /\ ret[1].errors = <<"regex_error", "regex_error">>
    /\ ret[1].chunk = call.chunk

(***************************************************************************)
(* Frame of the dispatcher                                                 *)
(***************************************************************************)

\* C11: after _apply_masking the table has the same columns in the same
\* order and the same number of rows, every column that is not named in cols
\* has the cell values it had, and a call whose cols is empty or names no
\* column of the table returns the table as it was.
C11_NonTargetColumnsUnchanged ==
    (call.fn = "_apply_masking" /\ ret # <<>>) =>
        LET before == call.chunk
            after  == ret[1].chunk
        IN  /\ after.columns = before.columns
            /\ Len(after.rows) = Len(before.rows)
            /\ \A i \in DOMAIN before.rows :
                   /\ DOMAIN after.rows[i] = DOMAIN before.rows[i]
                   /\ \A c \in Range(before.columns) \ Range(call.cols) :
                          after.rows[i][c] = before.rows[i][c]
            /\ (Range(call.cols) \cap Range(before.columns) = {}) => after = before

\* a full mask of column A alone has returned: A is masked, B is as it was
C11_Witness ==
    /\ call.fn = "_apply_masking"
    /\ ret # <<>>
    /\ call.cols = <<"A">>
    /\ call.policy.method = "full"
    /\ call.chunk.rows[1].A = <<"a", "a", "b">>
    /\ call.chunk.rows[1].B = <<"a", "b">>
    /\ ret[1].chunk.rows[1].A = Stars(4)
    /\ ret[1].chunk.rows[1].B = <<"a", "b">>

(***************************************************************************)
(* Name of the output file                                                 *)
(***************************************************************************)

\* the recognized suffix at the end of a base name, or none
RecognizedSuffixOf(base) ==
    LET hits == { i \in DOMAIN StripSuffixes : EndsWith(Lower(base), StripSuffixes[i]) }
    IN  IF hits = {} THEN <<>>
        ELSE StripSuffixes[CHOOSE i \in hits :
                              \A j \in hits : Len(StripSuffixes[j]) <= Len(StripSuffixes[i])]

TabDelimited(path) ==
    \/ EndsWith(Lower(path), <<".", "t", "s", "v">>)
    \/ EndsWith(Lower(path), <<".", "t", "s", "v", ".", "g", "z">>)

\* C12: the name of the output file is the base name of the input without
\* its recognized suffix, then "_masked", then .tsv for a tab-delimited
\* input and .csv otherwise, then .gz when gzip is asked for and the output
\* is comma-delimited.
C12_OutNameMaskedSuffix ==
    (call.fn = "stream_mask_save" /\ ret # <<>>) =>
        LET base == Basename(call.path)
            stem == SubSeq(base, 1, Len(base) - Len(RecognizedSuffixOf(base)))
            ext  == IF TabDelimited(call.path) THEN <<".", "t", "s", "v">> ELSE <<".", "c", "s", "v">>
            gz   == IF call.gzip_save /\ ~TabDelimited(call.path) THEN <<".", "g", "z">> ELSE <<>>
        IN  ret[1] = stem \o <<"_", "m", "a", "s", "k", "e", "d">> \o ext \o gz

(***************************************************************************)
(* Type normalizer                                                         *)
(***************************************************************************)

ConvertReturned ==
    call.fn = "convert_excel_type_to_snowflake" /\ ret # <<>>

\* the keyword table as the documentation gives it: <<keyword, target>>
KeywordTargets ==
    << <<<<"U+6587", "U+5B57", "U+5217">>, <<"v", "a", "r", "c", "h", "a", "r", "(", "1", "0", "0", ")">>>>,
       <<<<"V", "A", "R", "C", "H", "A", "R">>, <<"v", "a", "r", "c", "h", "a", "r", "(", "1", "0", "0", ")">>>>,
       <<<<"C", "H", "A", "R">>, <<"v", "a", "r", "c", "h", "a", "r", "(", "1", "0", "0", ")">>>>,
       <<<<"T", "E", "X", "T">>, <<"v", "a", "r", "c", "h", "a", "r", "(", "1", "0", "0", ")">>>>,
       <<<<"U+6570", "U+5024">>, <<"n", "u", "m", "b", "e", "r">>>>,
       <<<<"N", "U", "M", "B", "E", "R">>, <<"n", "u", "m", "b", "e", "r">>>>,
       <<<<"I", "N", "T">>, <<"n", "u", "m", "b", "e", "r">>>>,
       <<<<"I", "N", "T", "E", "G", "E", "R">>, <<"n", "u", "m", "b", "e", "r">>>>,
       <<<<"D", "E", "C", "I", "M", "A", "L">>, <<"n", "u", "m", "b", "e", "r">>>>,
       <<<<"N", "U", "M", "E", "R", "I", "C">>, <<"n", "u", "m", "b", "e", "r">>>>,
       <<<<"F", "L", "O", "A", "T">>, <<"f", "l", "o", "a", "t">>>>,
       <<<<"D", "O", "U", "B", "L", "E">>, <<"d", "o", "u", "b", "l", "e">>>>,
       <<<<"U+65E5", "U+4ED8">>, <<"d", "a", "t", "e">>>>,
       <<<<"D", "A", "T", "E">>, <<"d", "a", "t", "e">>>>,
       <<<<"U+65E5", "U+6642">>, <<"t", "i", "m", "e", "s", "t", "a", "m", "p">>>>,
       <<<<"D", "A", "T", "E", "T", "I", "M", "E">>, <<"t", "i", "m", "e", "s", "t", "a", "m", "p">>>>,
       <<<<"T", "I", "M", "E", "S", "T", "A", "M", "P">>, <<"t", "i", "m", "e", "s", "t", "a", "m", "p">>>>,
       <<<<"U+6642", "U+523B">>, <<"t", "i", "m", "e">>>>,
       <<<<"T", "I", "M", "E">>, <<"t", "i", "m", "e">>>>,
       <<<<"B", "O", "O", "L", "E", "A", "N">>, <<"b", "o", "o", "l", "e", "a", "n">>>>,
       <<<<"B", "O", "O", "L">>, <<"b", "o", "o", "l", "e", "a", "n">>>> >>

\* C13: a declared type that is, in any letter case, a keyword of the table
\* is converted to the target type the table lists for that keyword.
C13_KeywordGivesListedTarget ==
    ConvertReturned =>
        \A k \in DOMAIN KeywordTargets :
            call.excel_type \in CaseVariants(KeywordTargets[k][1]) =>
                ret[1] = KeywordTargets[k][2]

\* the types without a size that a conversion can give
PlainTypes ==
    { <<"n", "u", "m", "b", "e", "r">>,
      <<"f", "l", "o", "a", "t">>,
      <<"d", "o", "u", "b", "l", "e">>,
      <<"d", "a", "t", "e">>,
      <<"t", "i", "m", "e", "s", "t", "a", "m", "p">>,
      <<"t", "i", "m", "e">>,
      <<"b", "o", "o", "l", "e", "a", "n">> }

\* varchar(n) or number(n) with n a string of digits
IsSizedType(r, name) ==
    /\ Len(r) >= Len(name) + 3
    /\ SubSeq(r, 1, Len(name) + 1) = name \o <<"(">>
    /\ r[Len(r)] = ")"
    /\ \A i \in (Len(name) + 2)..(Len(r) - 1) : IsDigit(r[i])

IsNormalizedType(r) ==
    \/ r \in PlainTypes
    \/ IsSizedType(r, <<"v", "a", "r", "c", "h", "a", "r">>)
    \/ IsSizedType(r, <<"n", "u", "m", "b", "e", "r">>)

\* C14: whatever the declared type, the conversion returns one of
\* varchar(n), number, number(n), float, double, date, timestamp, time,
\* boolean; never a bare varchar.
C14_ResultInClosedSet ==
    ConvertReturned => IsNormalizedType(ret[1])

\* the declared type matches no key of the table in either direction
MatchesNoKeyword(x) ==
    LET u == Strip(Upper(x))
    IN  \A k \in DOMAIN type_mapping :
            ~Contains(u, type_mapping[k][1]) /\ ~Contains(type_mapping[k][1], u)

\* C15: LETTERS(DIGITS) with letters VARCHAR or CHAR in any letter case
\* gives varchar(DIGITS), with letters NUMBER, DECIMAL or NUMERIC gives
\* number(DIGITS), the digits copied as they are; an empty or blank type
\* and a type that matches no keyword give varchar(100).
C15_SizedAndDefaultTypes ==
    ConvertReturned =>
        /\ \A d \in DigitStrings :
              /\ \A b \in {<<"V", "A", "R", "C", "H", "A", "R">>, <<"C", "H", "A", "R">>} :
                     call.excel_type \in { Sized(l, d) : l \in CaseVariants(b) } =>
                         ret[1] = Sized(<<"v", "a", "r", "c", "h", "a", "r">>, d)
              /\ \A b \in {<<"N", "U", "M", "B", "E", "R">>, <<"D", "E", "C", "I", "M", "A", "L">>, <<"N", "U", "M", "E", "R", "I", "C">>} :
                     call.excel_type \in { Sized(l, d) : l \in CaseVariants(b) } =>
                         ret[1] = Sized(<<"n", "u", "m", "b", "e", "r">>, d)
        /\ (\A i \in DOMAIN call.excel_type : call.excel_type[i] = " ") =>
               ret[1] = Varchar100
        /\ MatchesNoKeyword(call.excel_type) => ret[1] = Varchar100

\* Char(05), NUMERIC(10) and an unknown type have been converted
C15_Witness ==
    /\ ConvertReturned
    /\ \/ call.excel_type = <<"C", "h", "a", "r", "(", "0", "5", ")">> /\ ret[1] = <<"v", "a", "r", "c", "h", "a", "r", "(", "0", "5", ")">>
       \/ call.excel_type = <<"N", "U", "M", "E", "R", "I", "C", "(", "1", "0", ")">> /\ ret[1] = <<"n", "u", "m", "b", "e", "r", "(", "1", "0", ")">>
       \/ call.excel_type = <<"U+4E0D", "U+660E">> /\ ret[1] = Varchar100

(***************************************************************************)
(* SQL generator                                                           *)
(***************************************************************************)

\* the generator has returned a SQL text
GenReturned ==
    /\ call.fn = "generate_dbt_sql_with_mapping"
    /\ ret # <<>>
    /\ ret[1].sql # <<>>

\* the inclusion mask at position i: none supplied includes every row, a
\* position beyond the mask counts as false
MaskIncludes(selected_rows, i) ==
    \/ selected_rows = <<>>
    \/ i <= Len(selected_rows[1]) /\ selected_rows[1][i]

IsBlank(text) == \A i \in DOMAIN text : text[i] = " "

\* the members of a set of positions in increasing order
RECURSIVE Ascending(_)
Ascending(S) ==
    IF S = {} THEN <<>>
    ELSE LET m == CHOOSE x \in S : \A y \in S : x <= y
         IN  <<m>> \o Ascending(S \ {m})

\* positions of the mask-selected rows whose physical name is neither null
\* nor blank
NamedPositions ==
    { i \in DOMAIN call.df :
        /\ MaskIncludes(call.selected_rows, i)
        /\ call.df[i][call.physical_col] # NaN
        /\ ~IsBlank(call.df[i][call.physical_col]) }

\* the same without the rows whose name is the text nan between blanks
UsablePositions ==
    { i \in NamedPositions : Strip(call.df[i][call.physical_col]) # <<"n", "a", "n">> }

\* the columns of the extraction stage are the rows at the positions P, in
\* order, the k-th with slot c<k>
ColumnsAre(P) ==
    LET columns  == ret[1].sql[1].columns
        retained == Ascending(P)
    IN  /\ Len(columns) = Len(retained)
        /\ \A k \in DOMAIN columns :
               /\ columns[k].row = retained[k]
               /\ columns[k].name = Strip(call.df[retained[k]][call.physical_col])
               /\ columns[k].slot = <<"c">> \o DecimalText(k)

\* C16: the retained rows are the mask-selected rows whose
\* physical name is neither null nor blank, in input order, and the k-th of
\* them is emitted with slot c<k>, without gap or repeat.
C16_SlotsFollowNamedRows ==
    GenReturned => ColumnsAre(NamedPositions)

\* What the generator does: the columns are the mask-selected rows whose
\* physical name is not null, not blank and not the text nan once trimmed,
\* in input order, with the slots c1, c2, ... in that order.
SlotsFollowUsableRows ==
    GenReturned => ColumnsAre(UsablePositions)

\* C17: the selection stage has one expression per column of the
\* extraction stage, for the same names in the same order, and the
\* expression is the case expression exactly when the name contains gender
\* in any letter case or contains the Japanese word for it.
C17_SelectFollowsExtraction ==
    GenReturned =>
        LET columns == ret[1].sql[1].columns
            selects == ret[1].sql[1].select_columns
        IN  /\ Len(selects) = Len(columns)
            /\ \A k \in DOMAIN selects :
                   /\ selects[k].name = columns[k].name
                   /\ selects[k].kind = "case" <=>
                          \/ Contains(Lower(selects[k].name), <<"g", "e", "n", "d", "e", "r">>)
                          \/ Contains(selects[k].name, <<"U+6027", "U+5225">>)
                   /\ selects[k].kind \in {"case", "column"}

\* a sheet with id and GENDER_cd: a column reference, then a case expression
C17_Witness ==
    /\ GenReturned
    /\ Len(ret[1].sql[1].select_columns) = 2
    /\ ret[1].sql[1].select_columns[1] = [kind |-> "column", name |-> <<"i", "d">>, row |-> 1]
    /\ ret[1].sql[1].select_columns[2].kind = "case"
    /\ ret[1].sql[1].select_columns[2].name = <<"G", "E", "N", "D", "E", "R", "_", "c", "d">>

\* C18: a row is emitted exactly when the mask includes its position in the
\* input and its name is one the generator keeps; a position beyond a short
\* mask is excluded, the part of a long mask beyond the input is ignored,
\* and with no mask every position is included.
C18_MaskAlignedToInput ==
    GenReturned =>
        LET emitted == { ret[1].sql[1].columns[k].row : k \in DOMAIN ret[1].sql[1].columns }
        IN  \A i \in DOMAIN call.df :
                i \in emitted <=>
                    /\ MaskIncludes(call.selected_rows, i)
                    /\ call.df[i][call.physical_col] # NaN
                    /\ ~SkipsName(Strip(call.df[i][call.physical_col]))

\* three rows named id under the mask [False, True]: the second row alone
\* is emitted
C18_Witness ==
    /\ GenReturned
    /\ call.selected_rows = <<<<FALSE, TRUE>>>>
    /\ Len(call.df) = 3
    /\ \A i \in 1..3 : call.df[i].physical = <<"i", "d">>
    /\ Len(ret[1].sql[1].columns) = 1
    /\ ret[1].sql[1].columns[1].row = 2

\* the names of the column entries of a schema definition, in order
RECURSIVE YmlNamesFrom(_, _)
YmlNamesFrom(lines, i) ==
    IF i > Len(lines) THEN <<>>
    ELSE (IF lines[i].kind = "name" THEN <<lines[i].text>> ELSE <<>>)
         \o YmlNamesFrom(lines, i + 1)

\* the call gives the two required role columns
RolesGiven ==
    /\ call.fn = "generate_dbt_sql_with_mapping"
    /\ ret # <<>>
    /\ call.physical_col # NoColumn
    /\ call.type_col # NoColumn

\* the schema definition is returned exactly when include_comments is true,
\* the logical-name or the description column is designated, and the SQL
\* has at least one column; it then has one column entry per SQL column, in
\* the same order
YmlGated ==
    /\ ret[1].schema_yml # <<>> <=>
           /\ call.include_comments
           /\ \/ call.logical_col \notin {NoColumn, Unselected}
              \/ call.desc_col \notin {NoColumn, Unselected}
           /\ ret[1].sql # <<>>
           /\ Len(ret[1].sql[1].columns) >= 1
    /\ ret[1].schema_yml # <<>> =>
           YmlNamesFrom(ret[1].schema_yml[1], 1)
               = [k \in DOMAIN ret[1].sql[1].columns |-> ret[1].sql[1].columns[k].name]

\* C19: with the two required role columns given, the schema definition is
\* returned exactly when include_comments is true, a logical-name or
\* description column is designated and at least one row is retained, with
\* one entry per retained row in the order of the SQL columns; in every
\* other case it is none, and the SQL is returned in every case.
C19_SchemaYmlGating ==
    RolesGiven => (YmlGated /\ ret[1].sql # <<>>)

\* What the generator does: the same, with the SQL returned in every case
\* but that of a mask given for a sheet without rows.
SchemaYmlGatingOnRows ==
    RolesGiven =>
        /\ YmlGated
        /\ ret[1].sql # <<>> <=> (call.selected_rows = <<>> \/ Len(call.df) > 0)

(***************************************************************************)
(* Running again over an output file that exists                           *)
(***************************************************************************)

\* C20: when a streaming run has read its whole input, the output file
\* holds what that run alone wrote: one header line followed by one line
\* per input row, and no line of an earlier run.
C20_RerunLeavesOneRunOutput ==
    RunComplete =>
        /\ out_file = RunLines
        /\ Len(out_file) = 1 + Len(file.rows)
        /\ out_file[1].kind = "header"
        /\ \A i \in 2..Len(out_file) : out_file[i].kind = "row"

=============================================================================
